---- MODULE Spec2Model ----
(***************************************************************************)
(* A model of the editing core of MikuMikuWorld: ScoreEditor (score,       *)
(* selection, history, hold-release normalization, cursor snapping, the    *)
(* per-frame note sound-effect scheduler) and AudioManager (BGM transport).*)
(*                                                                         *)
(* Times are integers in an abstract unit (the C++ code uses float         *)
(* seconds); ticks are the C++ int ticks.                                  *)
(***************************************************************************)
EXTENDS Integers, Sequences, FiniteSets, TLC

(***************************************************************************)
(* Bounds of the model                                                     *)
(***************************************************************************)
\* largest tick a dragged note is moved to
MaxTick == 3
\* largest number of mid steps of the hold under edit
MaxSteps == 2
\* largest number of entries of the undo stack
MaxHistory == 2
\* largest number of notes in a score file
MaxFileNotes == 1
\* largest note ID the allocator hands out in the model
MaxID == 2
\* the session clock stops advancing here
MaxTime == 8
\* how far the BGM position may run ahead of or behind the session clock
MaxDrift == 3
\* the largest tick, of either sign, that is snapped to the grid
MaxSnapTick == 250
\* the largest pixel coordinate of a corner of the selection rectangle
MaxDragPos == 4
\* the largest tick of a tempo change
MaxTempoTick == 4
\* the largest number of entries of a tempo map
MaxTempos == 3

(***************************************************************************)
(* Program constants                                                       *)
(***************************************************************************)
TICKS_PER_BEAT == 480
MIN_LANE == 0
MAX_LANE == 11
\* the value resetNextID() gives nextID
resetNextID == 0

SUS_EXTENSION == "sus"
MMWS_EXTENSION == "mmws"

VARIABLES
    \* ScoreEditor: the chart under edit
    score,              \* Score: [notes, holdNotes]
    prevUpdateScore,    \* Score copied when a note control is activated
    selection,          \* set of selected note IDs
    history,            \* HistoryManager: [undo, redo], sequences of [prev, curr]
    hasEdit,
    uptoDate,
    nextID,             \* the global note ID allocator
    workingFilename,    \* workingData.filename ("" when none)
    isHoldingNote,
    lastOp,             \* the operation that ran last
    lastPush            \* the last pushHistory(prev, curr) and what followed it

VARIABLES
    \* ScoreEditor: playback
    playing,
    time,               \* the session clock
    playStartTime,
    currentTick,
    songPos,
    songPosLastFrame,
    tickSEMap,          \* set of "tick-se" keys, as <<tick, se>>
    soundLog            \* playSound requests issued since playback last started

VARIABLES
    musicOffset,        \* workingData.musicOffset, in time units
    \* AudioManager: [musicInitialized, bgmOffset, cursor, atEnd, started, sustain]
    \*   cursor: the BGM sound's cursor in PCM frames; atEnd: bgm.atEnd;
    \*   started: the BGM sound is started (ma_sound_start / ma_sound_stop)
    \*   sustain: an instance of the connect effects has been played and not
    \*   stopped
    audio

VARIABLES
    \* ScoreEditor: cursor grid
    division

editVars == <<score, prevUpdateScore, selection, history, hasEdit, uptoDate,
              nextID, workingFilename, isHoldingNote>>
playVars == <<playing, time, playStartTime, currentTick, songPos,
              songPosLastFrame, tickSEMap, soundLog>>
audioVars == <<musicOffset, audio>>
obsVars == <<lastOp, lastPush>>
vars == <<editVars, playVars, audioVars, division, obsVars>>

(***************************************************************************)
(* Score: notes and holds                                                  *)
(***************************************************************************)
EmptyFcn == [x \in {} |-> 0]

\* the tempo map of a new score: one tempo at tick 0
DefaultTempo == <<[tick |-> 0, bpm |-> 240]>>

\* Score{}
EmptyScore == [notes |-> EmptyFcn, holdNotes |-> EmptyFcn, tempoChanges |-> DefaultTempo]

Note(type, tick, lane, width) ==
    [type |-> type, tick |-> tick, lane |-> lane, width |-> width, critical |-> FALSE]

\* the notes of a hold: start, steps, end
HoldIDs(hold) == {hold.start, hold.end} \cup {hold.steps[i] : i \in 1..Len(hold.steps)}

\* selection.getHolds(score): the holds a selected note belongs to
getHolds(sel, s) ==
    {h \in DOMAIN s.holdNotes : HoldIDs(s.holdNotes[h]) \cap sel # {}}

\* std::swap(a.tick, b.tick); std::swap(a.lane, b.lane)
SwapTickLane(notes, a, b) ==
    [notes EXCEPT ![a].tick = notes[b].tick, ![a].lane = notes[b].lane,
                  ![b].tick = notes[a].tick, ![b].lane = notes[a].lane]

RECURSIVE InsertStep(_, _, _)
InsertStep(notes, sorted, id) ==
    IF sorted = <<>> THEN <<id>>
    ELSE IF notes[id].tick < notes[Head(sorted)].tick THEN <<id>> \o sorted
    ELSE <<Head(sorted)>> \o InsertStep(notes, Tail(sorted), id)

\* sortHoldSteps(score, hold): the steps ordered by the tick of their notes
\* (stable)
RECURSIVE sortHoldSteps(_, _)
sortHoldSteps(notes, steps) ==
    IF steps = <<>> THEN <<>>
    ELSE InsertStep(notes, sortHoldSteps(notes, SubSeq(steps, 1, Len(steps) - 1)),
                    steps[Len(steps)])

\* noteControl, the body of the loop over the selected holds (before pushHistory)
NormalizeHold(s, id) ==
    LET hold == s.holdNotes[id]
        n1 == IF s.notes[id].tick > s.notes[hold.end].tick
              THEN SwapTickLane(s.notes, id, hold.end) ELSE s.notes
        steps == sortHoldSteps(n1, hold.steps)
        n2 == IF steps # <<>> /\ n1[id].tick > n1[steps[1]].tick
              THEN SwapTickLane(n1, id, steps[1]) ELSE n1
        n3 == IF steps # <<>> /\ n2[hold.end].tick < n2[steps[Len(steps)]].tick
              THEN SwapTickLane(n2, hold.end, steps[Len(steps)]) ELSE n2
    IN  [s EXCEPT !.notes = n3, !.holdNotes[id].steps = steps]

(***************************************************************************)
(* HistoryManager                                                          *)
(***************************************************************************)
EmptyHistory == [undo |-> <<>>, redo |-> <<>>]

hasUndo(h) == h.undo # <<>>
hasRedo(h) == h.redo # <<>>

\* no pushHistory is being followed
NoPush ==
    [phase |-> "none", prev |-> EmptyScore, curr |-> EmptyScore,
     discarded |-> FALSE, mutated |-> FALSE]

\* pushHistory(prev, curr) was just called on the history h
Pushed(h, prev, curr) ==
    [phase |-> "pushed", prev |-> prev, curr |-> curr, discarded |-> hasRedo(h),
     mutated |-> FALSE]

\* history.pushHistory(description, prev, curr)
HistoryPush(h, prev, curr) ==
    [undo |-> Append(h.undo, [prev |-> prev, curr |-> curr]), redo |-> <<>>]

\* history.undo(): the history afterwards; the score returned is HistoryPeekUndo
HistoryUndo(h) ==
    [undo |-> SubSeq(h.undo, 1, Len(h.undo) - 1),
     redo |-> Append(h.redo, h.undo[Len(h.undo)])]
HistoryPeekUndo(h) == h.undo[Len(h.undo)].prev

HistoryRedo(h) ==
    [undo |-> Append(h.undo, h.redo[Len(h.redo)]),
     redo |-> SubSeq(h.redo, 1, Len(h.redo) - 1)]
HistoryPeekRedo(h) == h.redo[Len(h.redo)].curr

(***************************************************************************)
(* AudioManager                                                            *)
(***************************************************************************)
\* engine.sampleRate, in PCM frames per time unit
SampleRate == 2
\* the length of the BGM track in PCM frames
BgmLength == 8
\* ma_uint64 holds values below this (a narrow stand-in for 2^64)
FrameModulus == 2^16

\* the state initAudio() leaves
InitAudio ==
    [musicInitialized |-> FALSE, bgmOffset |-> 0, cursor |-> 0, atEnd |-> FALSE,
     started |-> FALSE, sustain |-> FALSE]

\* the conversion of a float to ma_uint64: undefined for a negative value,
\* where the build gives the wrapped value or zero
ToFrame(x) == IF x >= 0 THEN {x % FrameModulus} ELSE {FrameModulus + x, 0}

\* ma_sound_seek_to_pcm_frame: a frame past the end leaves the cursor or puts
\* it at the end
SeekCursor(a, frame) ==
    IF frame <= BgmLength THEN {frame} ELSE {a.cursor, BgmLength}

\* AudioManager::seekBGM(time), given the converted frame and whether the
\* length query succeeds
seekBGMAt(a, seekFrame, lengthOK) ==
    {[a EXCEPT !.cursor = c,
               !.atEnd = IF ~lengthOK THEN a.atEnd
                         ELSE IF seekFrame > BgmLength THEN TRUE
                         ELSE IF a.atEnd /\ seekFrame < BgmLength THEN FALSE
                         ELSE a.atEnd] : c \in SeekCursor(a, seekFrame)}

\* ma_sound_get_length_in_pcm_frames succeeds on an initialized sound
LengthResults(a) == IF a.musicInitialized THEN {TRUE} ELSE {TRUE, FALSE}

seekBGM(a, t) ==
    UNION {seekBGMAt(a, f, ok) : f \in ToFrame((t - a.bgmOffset) * SampleRate),
                                 ok \in LengthResults(a)}

\* AudioManager::playBGM(currTime)
playBGM(a, currTime) ==
    IF ~a.musicInitialized THEN a
    ELSE IF (a.bgmOffset - currTime) * SampleRate * (-1) > BgmLength THEN a
    ELSE [a EXCEPT !.started = TRUE]

\* AudioManager::playSound(se, start, end) for each request of a frame: a
\* connect effect gets an instance
playSounds(a, requests) ==
    IF \E r \in requests : r.se \in {"connect", "critical_connect"}
    THEN [a EXCEPT !.sustain = TRUE] ELSE a

\* AudioManager::stopSounds(false): the instances of the connect effects stop
stopSounds(a) == [a EXCEPT !.sustain = FALSE]

\* AudioManager::stopBGM()
stopBGM(a) == [a EXCEPT !.started = FALSE, !.cursor = 0]

\* AudioManager::disposeBGM()
disposeBGM(a) ==
    IF a.musicInitialized
    THEN [a EXCEPT !.started = FALSE, !.musicInitialized = FALSE]
    ELSE a

\* AudioManager::changeBGM(filename); ok: the file initializes as a sound
changeBGM(a, ok) ==
    IF ok
    THEN [disposeBGM(a) EXCEPT !.musicInitialized = TRUE, !.cursor = 0,
                               !.atEnd = FALSE, !.started = FALSE]
    ELSE [disposeBGM(a) EXCEPT !.musicInitialized = FALSE]

\* AudioManager::setBGMOffset(time, msec), msec already in time units
setBGMOffset(a, t, offset) ==
    {[a EXCEPT !.bgmOffset = offset, !.cursor = c] :
        c \in UNION {SeekCursor(a, f) : f \in ToFrame((t - offset) * SampleRate)}}

\* AudioManager::getAudioPosition(), in time units
getAudioPosition(a) == a.cursor \div SampleRate

(***************************************************************************)
(* ScoreEditor: history, load, save, reset                                 *)
(***************************************************************************)
\* all orders in which a set can be iterated
OrdersOf(S) ==
    {q \in [1..Cardinality(S) -> S] : \A i, j \in DOMAIN q : i # j => q[i] # q[j]}

\* a score file: its extension, the number of notes it holds, its music
\* offset, and where reading it fails, if it does
Files ==
    {f \in [ext : {SUS_EXTENSION, MMWS_EXTENSION, "txt"}, n : 0..MaxFileNotes,
            musicOffset : {0, 2}, fail : {"none", "import", "metadata"}] :
        /\ (f.ext = "txt" => f.fail # "import" /\ f.n = 0 /\ f.musicOffset = 0)
        /\ (f.fail = "import" => f.n = 0 /\ f.musicOffset = 0)
        /\ (f.musicOffset # 0 => f.ext = MMWS_EXTENSION /\ f.fail = "none")}

\* susIO.importSUS(filename) / deserializeScore(filename): the notes take
\* their IDs from the allocator, which loadScore has reset
FileScore(f) ==
    [notes |-> [id \in resetNextID..(resetNextID + f.n - 1) |-> Note("Tap", id, id, 1)],
     holdNotes |-> EmptyFcn, tempoChanges |-> DefaultTempo]

\* the branch that stops playback with a slip: the connect effects play on
TogglePlayingOffKeepsSounds(a) == stopBGM(a)

\* ScoreEditor::togglePlaying(), the branch that stops playback
TogglePlayingOff(a) == stopBGM(stopSounds(a))

\* pushHistory with a slip: the entry is put on the undo stack directly and
\* the redo stack is kept
pushHistoryKeepsRedo(prev, curr) ==
    /\ history' = [history EXCEPT !.undo = Append(@, [prev |-> prev, curr |-> curr])]
    /\ uptoDate' = FALSE

\* ScoreEditor::pushHistory(description, prev, curr)
pushHistory(prev, curr) ==
    /\ history' = HistoryPush(history, prev, curr)
    /\ uptoDate' = FALSE

\* undo with a slip: the entry's current score is restored, not its previous
undoRestoresCurr ==
    /\ IF hasUndo(history)
       THEN /\ score' = history.undo[Len(history.undo)].curr
            /\ history' = HistoryUndo(history)
            /\ selection' = {}
            /\ uptoDate' = FALSE
       ELSE UNCHANGED <<score, history, selection, uptoDate>>
    /\ lastOp' = [op |-> "undo", done |-> hasUndo(history),
                  hadSelection |-> selection # {}]
    /\ lastPush' = IF ~hasUndo(history) THEN lastPush
                   ELSE IF lastPush.phase = "pushed"
                   THEN [lastPush EXCEPT !.phase = "undone"] ELSE NoPush
    /\ UNCHANGED <<prevUpdateScore, hasEdit, nextID, workingFilename, isHoldingNote>>
    /\ UNCHANGED <<playVars, audioVars, division>>

\* undo with a slip: the selection is cleared and the score marked modified
\* also when there is nothing to undo
undoAlwaysClears ==
    /\ IF hasUndo(history)
       THEN /\ score' = HistoryPeekUndo(history)
            /\ history' = HistoryUndo(history)
       ELSE UNCHANGED <<score, history>>
    /\ selection' = {}
    /\ uptoDate' = FALSE
    /\ lastOp' = [op |-> "undo", done |-> hasUndo(history),
                  hadSelection |-> selection # {}]
    /\ lastPush' = IF ~hasUndo(history) THEN lastPush
                   ELSE IF lastPush.phase = "pushed"
                   THEN [lastPush EXCEPT !.phase = "undone"] ELSE NoPush
    /\ UNCHANGED <<prevUpdateScore, hasEdit, nextID, workingFilename, isHoldingNote>>
    /\ UNCHANGED <<playVars, audioVars, division>>

\* undo() with a slip: the selection is kept
undoKeepsSelection ==
    /\ IF hasUndo(history)
       THEN /\ score' = HistoryPeekUndo(history)
            /\ history' = HistoryUndo(history)
            /\ uptoDate' = FALSE
            /\ UNCHANGED selection
       ELSE UNCHANGED <<score, history, selection, uptoDate>>
    /\ lastOp' = [op |-> "undo", done |-> hasUndo(history),
                  hadSelection |-> selection # {}]
    /\ lastPush' = IF ~hasUndo(history) THEN lastPush
                   ELSE IF lastPush.phase = "pushed"
                   THEN [lastPush EXCEPT !.phase = "undone"] ELSE NoPush
    /\ UNCHANGED <<prevUpdateScore, hasEdit, nextID, workingFilename, isHoldingNote>>
    /\ UNCHANGED <<playVars, audioVars, division>>

\* ScoreEditor::undo()
undo ==
    /\ IF hasUndo(history)
       THEN /\ score' = HistoryPeekUndo(history)
            /\ history' = HistoryUndo(history)
            /\ selection' = {}
            /\ uptoDate' = FALSE
       ELSE UNCHANGED <<score, history, selection, uptoDate>>
    /\ lastOp' = [op |-> "undo", done |-> hasUndo(history),
                  hadSelection |-> selection # {}]
    /\ lastPush' = IF ~hasUndo(history) THEN lastPush
                   ELSE IF lastPush.phase = "pushed"
                   THEN [lastPush EXCEPT !.phase = "undone"] ELSE NoPush
    /\ UNCHANGED <<prevUpdateScore, hasEdit, nextID, workingFilename, isHoldingNote>>
    /\ UNCHANGED <<playVars, audioVars, division>>

\* ScoreEditor::redo()
redo ==
    /\ IF hasRedo(history)
       THEN /\ score' = HistoryPeekRedo(history)
            /\ history' = HistoryRedo(history)
            /\ selection' = {}
            /\ uptoDate' = FALSE
       ELSE UNCHANGED <<score, history, selection, uptoDate>>
    /\ lastOp' = [op |-> "redo", done |-> hasRedo(history),
                  hadSelection |-> selection # {}]
    /\ lastPush' = IF ~hasRedo(history) THEN lastPush
                   ELSE IF lastPush.phase = "undone"
                   THEN [lastPush EXCEPT !.phase = "redone"] ELSE NoPush
    /\ UNCHANGED <<prevUpdateScore, hasEdit, nextID, workingFilename, isHoldingNote>>
    /\ UNCHANGED <<playVars, audioVars, division>>

\* ScoreEditor::insertNote(): a tap with the next ID, checkpointed
insertNote ==
    /\ nextID <= MaxID
    /\ Len(history.undo) < MaxHistory
    /\ LET s1 == [score EXCEPT !.notes =
                    [id \in DOMAIN score.notes \cup {nextID} |->
                        IF id = nextID THEN Note("Tap", 0, 0, 1)
                        ELSE score.notes[id]]]
       IN  /\ score' = s1
           /\ pushHistory(score, s1)
           /\ lastPush' = Pushed(history, score, s1)
    /\ nextID' = nextID + 1
    /\ lastOp' = [op |-> "insertNote"]
    /\ UNCHANGED <<prevUpdateScore, selection, hasEdit, workingFilename, isHoldingNote>>
    /\ UNCHANGED <<playVars, audioVars, division>>

\* ScoreEditor::readScoreMetadata(), after the jacket is loaded: loadMusic and
\* setBGMOffset; musicOK: the music file initializes as a sound
ReadMusic(a, t, offset, musicOK) == setBGMOffset(changeBGM(a, musicOK), t, offset)

\* ScoreEditor::loadScore(filename)
loadScore(f) ==
    LET a0 == IF playing THEN TogglePlayingOff(audio) ELSE audio
        typed == f.ext \in {SUS_EXTENSION, MMWS_EXTENSION}
        imported == typed /\ f.fail # "import"
        s1 == IF imported THEN FileScore(f) ELSE score
        offset1 == IF imported THEN f.musicOffset ELSE musicOffset
    IN  /\ playing' = FALSE
        /\ IF typed /\ f.fail = "import"
           THEN \* importSUS / deserializeScore throws: only the catch block runs
                /\ nextID' = nextID
                /\ audio' = a0
                /\ UNCHANGED <<score, uptoDate, workingFilename, selection, history,
                               hasEdit, musicOffset, lastPush>>
           ELSE /\ score' = s1
                /\ uptoDate' = IF f.ext = SUS_EXTENSION THEN FALSE
                               ELSE IF f.ext = MMWS_EXTENSION THEN TRUE
                               ELSE uptoDate
                /\ workingFilename' = IF f.ext = SUS_EXTENSION THEN ""
                                      ELSE IF f.ext = MMWS_EXTENSION THEN "file.mmws"
                                      ELSE workingFilename
                /\ selection' = {}
                /\ history' = EmptyHistory
                /\ lastPush' = NoPush
                /\ hasEdit' = FALSE
                /\ musicOffset' = offset1
                /\ IF f.fail = "metadata"
                   THEN \* readScoreMetadata throws at the jacket: the catch block
                        /\ nextID' = nextID
                        /\ audio' = a0
                   ELSE /\ nextID' = IF imported THEN resetNextID + f.n
                                     ELSE resetNextID
                        /\ \E musicOK \in BOOLEAN :
                              audio' \in ReadMusic(a0, time, offset1, musicOK)
        /\ lastOp' = [op |-> "loadScore", ext |-> f.ext, fail |-> f.fail,
                      threw |-> (f.fail # "none"),
                      hadSelection |-> selection # {}, wasPlaying |-> playing,
                      wasSounding |-> (audio.sustain /\ audio.started)]
        /\ UNCHANGED <<prevUpdateScore, isHoldingNote>>
        /\ UNCHANGED <<time, playStartTime, currentTick, songPos, songPosLastFrame,
                       tickSEMap, soundLog, division>>

\* ScoreEditor::resetEditor(), leaving the audio state a
ResetEditorTo(a) ==
    /\ playing' = FALSE
    /\ audio' = a
    /\ selection' = {}
    /\ history' = EmptyHistory
    /\ lastPush' = NoPush
    /\ nextID' = resetNextID
    /\ workingFilename' = ""
    /\ musicOffset' = 0
    /\ score' = EmptyScore
    /\ hasEdit' = FALSE
    /\ uptoDate' = TRUE
    /\ UNCHANGED <<prevUpdateScore, isHoldingNote>>
    /\ UNCHANGED <<time, playStartTime, currentTick, songPos, songPosLastFrame,
                   tickSEMap, soundLog, division>>

\* ScoreEditor::resetEditor()
resetEditor ==
    /\ ResetEditorTo(stopBGM(stopSounds(audio)))
    /\ lastOp' = [op |-> "resetEditor", hadSelection |-> selection # {}]

\* ScoreEditor::reset(): resetEditor() and audio.disposeBGM()
reset ==
    /\ ResetEditorTo(disposeBGM(stopBGM(stopSounds(audio))))
    /\ lastOp' = [op |-> "reset"]

\* ScoreEditor::saveAs(); picked: the file dialog returned a filename
saveAs(picked) ==
    /\ IF picked
       THEN /\ workingFilename' = "file.mmws"
            /\ uptoDate' = TRUE
       ELSE UNCHANGED <<workingFilename, uptoDate>>
    /\ lastOp' = [op |-> "saveAs", saved |-> picked]
    /\ UNCHANGED lastPush
    /\ UNCHANGED <<score, prevUpdateScore, selection, history, hasEdit, nextID,
                   isHoldingNote>>
    /\ UNCHANGED <<playVars, audioVars, division>>

\* save with a slip: the working file is written and the flag is left alone
saveKeepsFlag(picked) ==
    /\ IF workingFilename # ""
       THEN /\ UNCHANGED <<workingFilename, uptoDate>>
            /\ lastOp' = [op |-> "save", saved |-> TRUE]
       ELSE /\ IF picked
               THEN /\ workingFilename' = "file.mmws"
                    /\ uptoDate' = TRUE
               ELSE UNCHANGED <<workingFilename, uptoDate>>
            /\ lastOp' = [op |-> "save", saved |-> picked]
    /\ UNCHANGED <<score, prevUpdateScore, selection, history, hasEdit, nextID,
                   isHoldingNote, lastPush>>
    /\ UNCHANGED <<playVars, audioVars, division>>

\* ScoreEditor::save()
save(picked) ==
    /\ IF workingFilename # ""
       THEN /\ uptoDate' = TRUE
            /\ UNCHANGED workingFilename
            /\ lastOp' = [op |-> "save", saved |-> TRUE]
       ELSE \* saveAs()
            /\ IF picked
               THEN /\ workingFilename' = "file.mmws"
                    /\ uptoDate' = TRUE
               ELSE UNCHANGED <<workingFilename, uptoDate>>
            /\ lastOp' = [op |-> "save", saved |-> picked]
    /\ UNCHANGED <<score, prevUpdateScore, selection, history, hasEdit, nextID,
                   isHoldingNote, lastPush>>
    /\ UNCHANGED <<playVars, audioVars, division>>

\* ScoreEditor::save(filename): writes the score to the named file
saveFile ==
    /\ lastOp' = [op |-> "saveFile", saved |-> TRUE]
    /\ UNCHANGED lastPush
    /\ UNCHANGED <<editVars, playVars, audioVars, division>>

\* ScoreEditor::togglePlaying()
togglePlaying ==
    /\ playing' = ~playing
    /\ IF ~playing
       THEN /\ playStartTime' = time
            /\ \E a1 \in seekBGM(audio, time) : audio' = playBGM(a1, time)
            /\ soundLog' = <<>>
       ELSE /\ audio' = TogglePlayingOff(audio)
            /\ UNCHANGED <<playStartTime, soundLog>>
    /\ lastOp' = [op |-> "togglePlaying"]
    /\ UNCHANGED lastPush
    /\ UNCHANGED <<editVars, time, currentTick, songPos, songPosLastFrame, tickSEMap,
                   musicOffset, division>>

(***************************************************************************)
(* ScoreEditor: selection and the note control (drag)                      *)
(***************************************************************************)
\* the selections made in the model: no note, one note, every note
Selections(s) ==
    {{}} \cup {{id} : id \in DOMAIN s.notes} \cup {DOMAIN s.notes}
         \cup {DOMAIN s.holdNotes}

\* the selection is replaced (a click or a rectangle)
selectNotes(S) ==
    /\ ~isHoldingNote
    /\ S # selection
    /\ selection' = S
    /\ lastOp' = [op |-> "selectNotes"]
    /\ UNCHANGED lastPush
    /\ UNCHANGED <<score, prevUpdateScore, history, hasEdit, uptoDate, nextID,
                   workingFilename, isHoldingNote>>
    /\ UNCHANGED <<playVars, audioVars, division>>

\* noteControl: the control of a selected note is activated and held
noteControlActivated ==
    /\ ~isHoldingNote
    /\ selection # {}
    /\ Len(history.undo) < MaxHistory
    /\ prevUpdateScore' = score
    /\ isHoldingNote' = TRUE
    /\ lastOp' = [op |-> "activate"]
    /\ UNCHANGED lastPush
    /\ UNCHANGED <<score, selection, history, hasEdit, uptoDate, nextID,
                   workingFilename>>
    /\ UNCHANGED <<playVars, audioVars, division>>

\* updateNote while the control is held: the selected notes move by d ticks
dragNotes(d) ==
    /\ isHoldingNote
    /\ selection # {}
    /\ selection \subseteq DOMAIN score.notes
    /\ \A id \in selection : score.notes[id].tick + d \in 0..MaxTick
    /\ score' = [score EXCEPT !.notes =
                    [id \in DOMAIN score.notes |->
                        IF id \in selection
                        THEN [score.notes[id] EXCEPT !.tick = @ + d]
                        ELSE score.notes[id]]]
    /\ hasEdit' = TRUE
    /\ lastOp' = [op |-> "dragNotes"]
    /\ lastPush' = IF lastPush.phase = "pushed"
                   THEN [lastPush EXCEPT !.mutated = TRUE] ELSE lastPush
    /\ UNCHANGED <<prevUpdateScore, selection, history, uptoDate, nextID,
                   workingFilename, isHoldingNote>>
    /\ UNCHANGED <<playVars, audioVars, division>>

\* noteControl, the loop over the selected holds: normalize, pushHistory
RECURSIVE ReleaseLoop(_, _, _, _)
ReleaseLoop(s, h, ids, prev) ==
    IF ids = <<>> THEN [score |-> s, history |-> h]
    ELSE LET s1 == NormalizeHold(s, Head(ids))
         IN  ReleaseLoop(s1, HistoryPush(h, prev, s1), Tail(ids), prev)

\* noteControl: the control is released (IsItemDeactivated)
noteControlReleased ==
    /\ isHoldingNote
    /\ isHoldingNote' = FALSE
    /\ LET sortHolds == IF selection \subseteq DOMAIN score.notes
                        THEN getHolds(selection, score) ELSE {}
       IN  /\ IF hasEdit /\ sortHolds # {}
              THEN /\ Len(history.undo) + Cardinality(sortHolds) <= MaxHistory
                   /\ \E order \in OrdersOf(sortHolds) :
                        LET r == ReleaseLoop(score, history, order, prevUpdateScore)
                        IN  /\ score' = r.score
                            /\ history' = r.history
                            /\ lastPush' = Pushed(history, prevUpdateScore, r.score)
                   /\ uptoDate' = FALSE
                   /\ hasEdit' = FALSE
              ELSE UNCHANGED <<score, history, uptoDate, hasEdit, lastPush>>
           /\ lastOp' = [op |-> "release",
                         holds |-> IF hasEdit THEN sortHolds ELSE {}]
    /\ UNCHANGED <<prevUpdateScore, selection, nextID, workingFilename>>
    /\ UNCHANGED <<playVars, audioVars, division>>

(***************************************************************************)
(* The editor session: files, history, selection and drags                 *)
(***************************************************************************)
\* the state the ScoreEditor constructor leaves
InitEditor ==
    /\ score = EmptyScore
    /\ prevUpdateScore = EmptyScore
    /\ selection = {}
    /\ history = EmptyHistory
    /\ hasEdit = FALSE
    /\ uptoDate = TRUE
    /\ nextID = resetNextID
    /\ workingFilename = ""
    /\ isHoldingNote = FALSE

InitPlayback ==
    /\ playing = FALSE
    /\ time = 0
    /\ playStartTime = 0
    /\ currentTick = 0
    /\ songPos = 0
    /\ songPosLastFrame = 0
    /\ tickSEMap = {}
    /\ soundLog = <<>>
    /\ musicOffset = 0
    /\ audio = InitAudio
    /\ division = 4

Init ==
    /\ InitEditor
    /\ InitPlayback
    /\ lastOp = [op |-> "init"]
    /\ lastPush = NoPush

Next ==
    \/ \E f \in Files : loadScore(f)
    \/ resetEditor
    \/ reset
    \/ insertNote
    \/ undo
    \/ redo
    \/ \E picked \in BOOLEAN : save(picked)
    \/ saveFile
    \/ \E picked \in BOOLEAN : saveAs(picked)
    \/ \E S \in Selections(score) : selectNotes(S)

Spec == Init /\ [][Next]_vars

(***************************************************************************)
(* A drag session: a hold is loaded and its notes are dragged              *)
(***************************************************************************)
Min(a, b) == IF a < b THEN a ELSE b

\* a score holding one hold of n steps: start 0, steps 1..n, end n + 1
HoldScore(n) ==
    [notes |-> [id \in 0..(n + 1) |->
                  IF id = 0 THEN Note("Hold", 0, 0, 1)
                  ELSE IF id = n + 1 THEN Note("HoldEnd", MaxTick, id, 1)
                  ELSE Note("HoldMid", Min(id, MaxTick), id, 1)],
     holdNotes |-> [h \in {0} |->
                  [start |-> 0, steps |-> [i \in 1..n |-> i], end |-> n + 1]],
     tempoChanges |-> DefaultTempo]

\* a score holding one tap and no hold
OneTapScore ==
    [notes |-> [id \in {0} |-> Note("Tap", 0, 0, 1)],
     holdNotes |-> EmptyFcn, tempoChanges |-> DefaultTempo]

InitEdit ==
    /\ \/ \E n \in 0..MaxSteps :
             /\ score = HoldScore(n)
             /\ nextID = n + 2
       \/ /\ score = OneTapScore
          /\ nextID = 1
    /\ prevUpdateScore = EmptyScore
    /\ selection = {}
    /\ history = EmptyHistory
    /\ hasEdit = FALSE
    /\ uptoDate = TRUE
    /\ workingFilename = "file.mmws"
    /\ isHoldingNote = FALSE
    /\ InitPlayback
    /\ lastOp = [op |-> "init"]
    /\ lastPush = NoPush

NextEdit ==
    \/ \E S \in Selections(score) : selectNotes(S)
    \/ noteControlActivated
    \/ \E d \in {-1, 1} : dragNotes(d)
    \/ noteControlReleased
    \/ undo
    \/ redo

SpecEdit == InitEdit /\ [][NextEdit]_vars

\* the lanes and widths of the ends of the hold of a drag session
GeomLanes == {MIN_LANE, 10}
GeomWidths == {1, 6}

\* note.lane and note.width keep the note inside the lanes
NoteInLanes(note) == MIN_LANE <= note.lane /\ note.lane + note.width - 1 <= MAX_LANE

\* a score holding one hold without steps, start at tick 0 and end at tick 1
GeomScore(l0, w0, l1, w1) ==
    [notes |-> [id \in {0, 1} |->
                  IF id = 0 THEN Note("Hold", 0, l0, w0) ELSE Note("HoldEnd", 1, l1, w1)],
     holdNotes |-> [h \in {0} |-> [start |-> 0, steps |-> <<>>, end |-> 1]],
     tempoChanges |-> DefaultTempo]

\* a drag session on a hold whose ends have lanes and widths of their own
InitGeom ==
    /\ \E l0, l1 \in GeomLanes, w0, w1 \in GeomWidths :
            /\ score = GeomScore(l0, w0, l1, w1)
            /\ \A id \in DOMAIN score.notes : NoteInLanes(score.notes[id])
    /\ nextID = 2
    /\ prevUpdateScore = EmptyScore
    /\ selection = {}
    /\ history = EmptyHistory
    /\ hasEdit = FALSE
    /\ uptoDate = TRUE
    /\ workingFilename = "file.mmws"
    /\ isHoldingNote = FALSE
    /\ InitPlayback
    /\ lastOp = [op |-> "init"]
    /\ lastPush = NoPush

SpecGeom == InitGeom /\ [][NextEdit]_vars

\* a score holding two holds without steps, each from tick 0 to tick 1
TwoHoldScore ==
    [notes |-> [id \in 0..3 |->
                  IF id \in {0, 2} THEN Note("Hold", 0, id, 1)
                  ELSE Note("HoldEnd", 1, id - 1, 1)],
     holdNotes |-> [h \in {0, 2} |-> [start |-> h, steps |-> <<>>, end |-> h + 1]],
     tempoChanges |-> DefaultTempo]

\* a drag session on a chart of two holds
InitPair ==
    /\ score = TwoHoldScore
    /\ nextID = 4
    /\ prevUpdateScore = EmptyScore
    /\ selection = {}
    /\ history = EmptyHistory
    /\ hasEdit = FALSE
    /\ uptoDate = TRUE
    /\ workingFilename = "file.mmws"
    /\ isHoldingNote = FALSE
    /\ InitPlayback
    /\ lastOp = [op |-> "init"]
    /\ lastPush = NoPush

SpecPair == InitPair /\ [][NextEdit]_vars

(***************************************************************************)
(* ScoreEditor::updateNoteSE: the note sound effects of a frame            *)
(***************************************************************************)
\* seconds of look-ahead and of start correction, in time units
audioLookAhead == 2
audioOffsetCorrection == 1

SE_PERFECT == "perfect"
SE_TICK == "tick"
SE_CONNECT == "connect"
SE_CRITICAL_CONNECT == "critical_connect"

\* time units one tick lasts at a tempo
UnitsPerTick(bpm) == 240 \div bpm

\* the last tempo change at or before a tick
RECURSIVE TempoAt(_, _)
TempoAt(tick, tempos) ==
    IF Len(tempos) = 1 \/ tempos[Len(tempos)].tick <= tick
    THEN tempos[Len(tempos)]
    ELSE TempoAt(tick, SubSeq(tempos, 1, Len(tempos) - 1))

\* accumulateDuration with a slip: only the segment the tick lies in is
\* counted, the segments before it are dropped
accumulateDurationOfSegment(tick, tempos) ==
    (tick - TempoAt(tick, tempos).tick) * UnitsPerTick(TempoAt(tick, tempos).bpm)

\* accumulateDuration(tick, TICKS_PER_BEAT, tempoChanges): the time of a tick,
\* summed over the tempo segments before it
RECURSIVE accumulateDuration(_, _)
accumulateDuration(tick, tempos) ==
    LET n == Len(tempos)
        last == tempos[n]
    IN  IF n = 1 \/ last.tick <= tick
        THEN (IF n = 1 THEN 0 ELSE accumulateDuration(last.tick, SubSeq(tempos, 1, n - 1)))
             + (tick - last.tick) * UnitsPerTick(last.bpm)
        ELSE accumulateDuration(tick, SubSeq(tempos, 1, n - 1))

\* getNoteSE(note, score): the effect of a note
getNoteSE(note) == IF note.type = "HoldMid" THEN SE_TICK ELSE SE_PERFECT

Max(a, b) == IF a > b THEN a ELSE b

\* a playSound(se, start, end) request, with the tick of the note it is for
Sound(se, tick, start, end) == [se |-> se, tick |-> tick, start |-> start, end |-> end]

\* the window test with a slip: the window is closed at the current position
InWindowClosed(offsetNoteTime, posLast, pos) ==
    offsetNoteTime >= posLast /\ offsetNoteTime <= pos

\* updateNoteSE: offsetNoteTime >= songPosLastFrame && offsetNoteTime < songPos
InWindow(offsetNoteTime, posLast, pos) ==
    offsetNoteTime >= posLast /\ offsetNoteTime < pos

\* the test of the playback-start branch with a slip: a note at the start
\* position itself is left out
StartsInLookAheadAfter(noteTime, offsetNoteTime, t) ==
    noteTime > t /\ offsetNoteTime < t

\* updateNoteSE, playback just started: noteTime >= time && offsetNoteTime < time
StartsInLookAhead(noteTime, offsetNoteTime, t) ==
    noteTime >= t /\ offsetNoteTime < t

\* updateNoteSE, the body of the loop for one note: acc is [map, log]
\* the test of the start branch with a slip: a hold that started before the
\* start position is left out
ResumesHoldFromStart(noteTime, endTime, t) ==
    noteTime >= t /\ (noteTime - t) <= audioLookAhead /\ endTime > t

\* the start branch's test for a hold that sounds at the start position
ResumesHold(noteTime, endTime, t) == (noteTime - t) <= audioLookAhead /\ endTime > t

NoteSE(s, id, acc, t, startTime, posLast, pos) ==
    LET note == s.notes[id]
        noteTime == accumulateDuration(note.tick, s.tempoChanges)
        notePlayTime == noteTime - startTime
        offsetNoteTime == noteTime - audioLookAhead
        se == getNoteSE(note)
        key == <<note.tick, se>>
        isHold == note.type = "Hold"
        endTime == accumulateDuration(s.notes[s.holdNotes[id].end].tick, s.tempoChanges)
        connect == IF note.critical THEN SE_CRITICAL_CONNECT ELSE SE_CONNECT
    IN  IF InWindow(offsetNoteTime, posLast, pos)
        THEN LET log1 == IF key \notin acc.map
                         THEN Append(acc.log, Sound(se, note.tick,
                                                    notePlayTime - audioOffsetCorrection, -1))
                         ELSE acc.log
             IN  [map |-> acc.map \cup {key},
                  log |-> IF isHold
                          THEN Append(log1, Sound(connect, note.tick,
                                    notePlayTime - audioOffsetCorrection,
                                    endTime - startTime - audioOffsetCorrection))
                          ELSE log1]
        ELSE IF t = startTime
        THEN LET fire == StartsInLookAhead(noteTime, offsetNoteTime, t) /\ key \notin acc.map
                 log1 == IF fire THEN Append(acc.log, Sound(se, note.tick, notePlayTime, -1))
                         ELSE acc.log
             IN  [map |-> IF fire THEN acc.map \cup {key} ELSE acc.map,
                  log |-> IF isHold /\ ResumesHold(noteTime, endTime, t)
                          THEN Append(log1, Sound(connect, note.tick,
                                    Max(0, notePlayTime), endTime - startTime))
                          ELSE log1]
        ELSE acc

\* the loop over score.notes, in the order of the IDs
RECURSIVE NotesSE(_, _, _, _, _, _, _)
NotesSE(s, ids, acc, t, startTime, posLast, pos) ==
    IF ids = {} THEN acc
    ELSE LET id == CHOOSE x \in ids : \A y \in ids : x <= y
         IN  NotesSE(s, ids \ {id}, NoteSE(s, id, acc, t, startTime, posLast, pos),
                     t, startTime, posLast, pos)

\* the song position with a slip: the BGM position is taken also when the
\* BGM is at its end
SongPositionPastEnd(a, pl, t, offset) ==
    IF a.musicInitialized /\ pl /\ getAudioPosition(a) >= offset
    THEN getAudioPosition(a) + offset
    ELSE t

\* the song position updateNoteSE takes for the frame
SongPosition(a, pl, t, offset) ==
    IF a.musicInitialized /\ pl /\ getAudioPosition(a) >= offset /\ ~a.atEnd
    THEN getAudioPosition(a) + offset
    ELSE t

\* ScoreEditor::updateNoteSE()
updateNoteSE ==
    LET pos == SongPosition(audio, playing, time, musicOffset)
    IN  /\ songPosLastFrame' = songPos
        /\ songPos' = pos
        /\ IF ~playing
           THEN UNCHANGED <<tickSEMap, soundLog, audio>>
           ELSE LET r == NotesSE(score, DOMAIN score.notes, [map |-> {}, log |-> soundLog],
                                 time, playStartTime, songPos, pos)
                IN  /\ tickSEMap' = r.map
                    /\ soundLog' = r.log
                    /\ audio' = playSounds(audio,
                            {r.log[i] : i \in (Len(soundLog) + 1)..Len(r.log)})

\* the BGM sound is playing on the audio thread
BgmRunning(a) == a.musicInitialized /\ a.started /\ ~a.atEnd

\* a frame of the editor: updateNoteSE runs, then the session clock advances
\* by the frame time while playing
update(dt) ==
    /\ updateNoteSE
    /\ IF playing
       THEN /\ time + dt <= MaxTime
            /\ BgmRunning(audio) =>
                    (time + dt) - (getAudioPosition(audio) + audio.bgmOffset) <= MaxDrift
            /\ time' = time + dt
       ELSE UNCHANGED time
    /\ lastOp' = [op |-> "update"]
    /\ UNCHANGED <<editVars, playing, playStartTime, currentTick, musicOffset, division,
                   lastPush>>

\* the BGM sound plays on the audio thread: its cursor advances by d time
\* units and the sound is at its end when the cursor reaches the length
bgmAdvance(d) ==
    LET c == Min(audio.cursor + d * SampleRate, BgmLength)
        p == c \div SampleRate + audio.bgmOffset
    IN  /\ BgmRunning(audio)
        /\ p - time <= MaxDrift /\ time - p <= MaxDrift
        /\ audio' = [audio EXCEPT !.cursor = c, !.atEnd = (c = BgmLength)]
        /\ lastOp' = [op |-> "bgmAdvance"]
        /\ UNCHANGED <<editVars, playVars, musicOffset, division, lastPush>>

\* ScoreEditor::stop()
stop ==
    /\ playing' = FALSE
    /\ time' = 0
    /\ currentTick' = 0
    /\ audio' = stopBGM(stopSounds(audio))
    /\ lastOp' = [op |-> "stop"]
    /\ UNCHANGED <<editVars, playStartTime, songPos, songPosLastFrame, tickSEMap,
                   soundLog, musicOffset, division, lastPush>>

(***************************************************************************)
(* A playback session: a score is loaded and played                        *)
(***************************************************************************)
\* a score of tap notes at the given ticks, IDs from 0
TapScore(ticks) ==
    [notes |-> [id \in 0..(Len(ticks) - 1) |-> Note("Tap", ticks[id + 1], id, 1)],
     holdNotes |-> EmptyFcn, tempoChanges |-> DefaultTempo]

\* the scores played in the model: one tap, two taps on one tick, a hold,
\* two holds that start on one tick
PlayScores ==
    {TapScore(<<5>>), TapScore(<<5, 5>>),
     [notes |-> (0 :> Note("Hold", 3, 0, 1) @@ 1 :> Note("HoldEnd", 6, 0, 1)),
      holdNotes |-> (0 :> [start |-> 0, steps |-> <<>>, end |-> 1]),
      tempoChanges |-> DefaultTempo],
     [notes |-> (0 :> Note("Hold", 3, 0, 1) @@ 1 :> Note("HoldEnd", 6, 0, 1) @@
                 2 :> Note("Hold", 3, 2, 1) @@ 3 :> Note("HoldEnd", 7, 2, 1)),
      holdNotes |-> (0 :> [start |-> 0, steps |-> <<>>, end |-> 1] @@
                     2 :> [start |-> 2, steps |-> <<>>, end |-> 3]),
      tempoChanges |-> DefaultTempo]}

\* a score was loaded, with or without music, and the cursor was placed
InitPlay ==
    /\ score \in PlayScores
    /\ nextID = Cardinality(DOMAIN score.notes)
    /\ prevUpdateScore = EmptyScore
    /\ selection = {}
    /\ history = EmptyHistory
    /\ hasEdit = FALSE
    /\ uptoDate = TRUE
    /\ workingFilename = "file.mmws"
    /\ isHoldingNote = FALSE
    /\ playing = FALSE
    /\ time \in {0, 2}
    /\ playStartTime = 0
    /\ currentTick = time
    /\ songPos = time
    /\ songPosLastFrame = time
    /\ tickSEMap = {}
    /\ soundLog = <<>>
    /\ musicOffset \in {0, 2}
    /\ \E ok \in BOOLEAN : audio \in ReadMusic(InitAudio, time, musicOffset, ok)
    /\ division = 4
    /\ lastOp = [op |-> "init"]
    /\ lastPush = NoPush

NextPlay ==
    \/ togglePlaying
    \/ \E dt \in {1, 2} : update(dt)
    \/ \E d \in {1, 2} : bgmAdvance(d)
    \/ stop

SpecPlay == InitPlay /\ [][NextPlay]_vars

\* ScoreEditor::stopAtLastSelectedTick(); tick: lastSelectedTick
stopAtLastSelectedTick(tick) ==
    /\ IF playing
       THEN /\ playing' = FALSE
            /\ audio' = stopBGM(stopSounds(audio))
            /\ currentTick' = tick
            /\ UNCHANGED <<playStartTime, soundLog>>
       ELSE \* togglePlaying()
            /\ playing' = TRUE
            /\ playStartTime' = time
            /\ \E a1 \in seekBGM(audio, time) : audio' = playBGM(a1, time)
            /\ soundLog' = <<>>
            /\ UNCHANGED currentTick
    /\ lastOp' = [op |-> "stopAtLastSelectedTick", wasPlaying |-> playing]
    /\ UNCHANGED <<editVars, time, songPos, songPosLastFrame, tickSEMap, musicOffset,
                   division, lastPush>>

\* a playback session on a chart of one hold, with the commands that end
\* playback
InitStop ==
    /\ InitPlay
    /\ Cardinality(DOMAIN score.holdNotes) = 1
    /\ time = 0
    /\ musicOffset = 0

\* the score files loaded in a playback session: without notes
StopFiles == {f \in Files : f.n = 0 /\ f.musicOffset = 0 /\ f.ext # "txt"}

NextStop ==
    \/ togglePlaying
    \/ \E dt \in {1, 2} : update(dt)
    \/ \E d \in {1, 2} : bgmAdvance(d)
    \/ stop
    \/ \E tick \in {0, MaxTick} : stopAtLastSelectedTick(tick)
    \/ \E f \in StopFiles : loadScore(f)
    \/ resetEditor

SpecStop == InitStop /\ [][NextStop]_vars

(***************************************************************************)
(* The BGM transport: tracks are loaded, offset and sought                 *)
(***************************************************************************)
\* audio.changeBGM(filename), as readScoreMetadata and the music chooser call it
changeBGMCall(ok) ==
    /\ audio' = changeBGM(audio, ok)
    /\ lastOp' = [op |-> "changeBGM"]
    /\ UNCHANGED <<editVars, playVars, musicOffset, division, lastPush>>

\* audio.setBGMOffset(time, offset)
setBGMOffsetCall(offset) ==
    /\ audio' \in setBGMOffset(audio, time, offset)
    /\ musicOffset' = offset
    /\ lastOp' = [op |-> "setBGMOffset"]
    /\ UNCHANGED <<editVars, playVars, division, lastPush>>

\* audio.seekBGM(t)
seekBGMCall(t) ==
    /\ audio' \in seekBGM(audio, t)
    /\ lastOp' = [op |-> "seekBGM", target |-> t, offset |-> audio.bgmOffset,
                  wasAtEnd |-> audio.atEnd, loaded |-> audio.musicInitialized]
    /\ UNCHANGED <<editVars, playVars, musicOffset, division, lastPush>>

\* the offsets a chart is given
Offsets == {0, 2}

NextSeek ==
    \/ \E ok \in BOOLEAN : changeBGMCall(ok)
    \/ \E offset \in Offsets : setBGMOffsetCall(offset)
    \/ \E t \in 0..MaxTime : seekBGMCall(t)

SpecSeek == Init /\ [][NextSeek]_vars

(***************************************************************************)
(* ScoreEditor: the cursor grid                                            *)
(***************************************************************************)
\* the % of C++ on int: the remainder has the sign of the dividend
CRem(a, b) == IF a >= 0 THEN a % b ELSE -((-a) % b)

\* TICKS_PER_BEAT / (div / 4), on int
GridUnit(div) == TICKS_PER_BEAT \div (div \div 4)

\* ScoreEditor::snapTick(tick, div)
snapTick(tick, div) ==
    LET half == GridUnit(div) \div 2
        remaining == CRem(tick, GridUnit(div))
        snapped == IF remaining >= half
                   THEN (tick - remaining) + half * 2
                   ELSE tick - remaining
    IN  Max(snapped, 0)

\* roundTickDown with a slip: the tick is not floored to the grid
roundTickDownKeepsTick(tick, div) == Max(tick, 0)

\* ScoreEditor::roundTickDown(tick, div)
roundTickDown(tick, div) == Max(tick - CRem(tick, GridUnit(div)), 0)

\* the divisions asked for, in and out of the accepted range
Divisions == {3, 4, 6, 8, 16, 128, 192, 384, 1920, 1921}

\* the ticks canvas.positionToTick gives
SnapTicks == (0 - MaxSnapTick)..MaxSnapTick

\* ScoreEditor::setDivision(div)
setDivision(div) ==
    /\ division' = IF div >= 4 /\ div <= 1920 THEN div ELSE division
    /\ lastOp' = [op |-> "setDivision", div |-> div]
    /\ UNCHANGED <<editVars, playVars, audioVars, lastPush>>

\* ScoreEditor::snapTickFromPos(posY), tick being canvas.positionToTick(posY)
snapTickFromPos(tick) ==
    /\ lastOp' = [op |-> "snapTick", tick |-> tick, div |-> division,
                  result |-> snapTick(tick, division)]
    /\ UNCHANGED <<editVars, playVars, audioVars, division, lastPush>>

NextSnap ==
    \/ \E div \in Divisions : setDivision(div)
    \/ \E tick \in SnapTicks : snapTickFromPos(tick)

SpecSnap == Init /\ [][NextSnap]_vars

\* the largest tick the cursor is stepped to
MaxCursorTick == 960

\* ScoreEditor::nextTick()
nextTick ==
    /\ roundTickDown(currentTick, division) + GridUnit(division) <= MaxCursorTick
    /\ currentTick' = roundTickDown(currentTick, division) + GridUnit(division)
    /\ lastOp' = [op |-> "nextTick", from |-> currentTick]
    /\ UNCHANGED <<editVars, playing, time, playStartTime, songPos, songPosLastFrame,
                   tickSEMap, soundLog, audioVars, division, lastPush>>

\* ScoreEditor::previousTick()
previousTick ==
    /\ currentTick' = IF currentTick <= 0 THEN 0
                      ELSE Max(roundTickDown(currentTick, division) - GridUnit(division), 0)
    /\ lastOp' = [op |-> "previousTick", from |-> currentTick]
    /\ UNCHANGED <<editVars, playing, time, playStartTime, songPos, songPosLastFrame,
                   tickSEMap, soundLog, audioVars, division, lastPush>>

\* the cursor is stepped over the grid, the division changes, playback stops
NextCursor ==
    \/ \E div \in Divisions : setDivision(div)
    \/ nextTick
    \/ previousTick
    \/ stop

SpecCursor == Init /\ [][NextCursor]_vars

(***************************************************************************)
(* ScoreEditor::calcDragSelection: the selection rectangle                 *)
(***************************************************************************)
\* canvas.laneToPosition(lane) and canvas.tickToPosition(tick), in pixels
laneToPosition(lane) == 2 * lane
tickToPosition(tick) == 2 * tick

\* isWithinRange(y, lo, hi)
isWithinRange(y, lo, hi) == y >= lo /\ y <= hi

\* the notes the rectangle between dragStart and mousePos matches; the code
\* widens the rectangle by 10 pixels above and below, here by 1
RectMatches(s, dragStart, mousePos) ==
    LET left == Min(dragStart.x, mousePos.x)
        right == Max(dragStart.x, mousePos.x)
        top == Min(dragStart.y, mousePos.y)
        bottom == Max(dragStart.y, mousePos.y)
    IN  {id \in DOMAIN s.notes :
            /\ right > laneToPosition(s.notes[id].lane)
            /\ left < laneToPosition(s.notes[id].lane + s.notes[id].width)
            /\ isWithinRange(0 - tickToPosition(s.notes[id].tick), top - 1, bottom + 1)}

\* calcDragSelection with a slip: the selection is cleared only when Alt is
\* not held, whatever Ctrl is
calcDragSelectionClearsOnCtrl(dragStart, mousePos, alt, ctrl) ==
    LET matches == RectMatches(score, dragStart, mousePos)
        kept == IF ~alt THEN {} ELSE selection
    IN  /\ selection' = IF alt THEN kept \ matches ELSE kept \cup matches
        /\ lastOp' = [op |-> "calcDragSelection", matches |-> matches, alt |-> alt,
                      ctrl |-> ctrl, old |-> selection]
        /\ UNCHANGED lastPush
        /\ UNCHANGED <<score, prevUpdateScore, history, hasEdit, uptoDate, nextID,
                       workingFilename, isHoldingNote>>
        /\ UNCHANGED <<playVars, audioVars, division>>

\* ScoreEditor::calcDragSelection(); alt, ctrl: InputListener::isAltDown(),
\* isCtrlDown()
calcDragSelection(dragStart, mousePos, alt, ctrl) ==
    LET matches == RectMatches(score, dragStart, mousePos)
        kept == IF ~alt /\ ~ctrl THEN {} ELSE selection
    IN  /\ selection' = IF alt THEN kept \ matches ELSE kept \cup matches
        /\ lastOp' = [op |-> "calcDragSelection", matches |-> matches, alt |-> alt,
                      ctrl |-> ctrl, old |-> selection]
        /\ UNCHANGED lastPush
        /\ UNCHANGED <<score, prevUpdateScore, history, hasEdit, uptoDate, nextID,
                       workingFilename, isHoldingNote>>
        /\ UNCHANGED <<playVars, audioVars, division>>

\* a score of three taps on two lanes
SelectScore ==
    [notes |-> [id \in 0..2 |-> Note("Tap", id, id % 2, 1)],
     holdNotes |-> EmptyFcn, tempoChanges |-> DefaultTempo]

\* the corners of the rectangles dragged
DragPoints == [x : 0..MaxDragPos, y : (0 - MaxDragPos)..0]

InitSelect ==
    /\ score = SelectScore
    /\ nextID = 3
    /\ prevUpdateScore = EmptyScore
    /\ selection = {}
    /\ history = EmptyHistory
    /\ hasEdit = FALSE
    /\ uptoDate = TRUE
    /\ workingFilename = "file.mmws"
    /\ isHoldingNote = FALSE
    /\ InitPlayback
    /\ lastOp = [op |-> "init"]
    /\ lastPush = NoPush

NextSelect ==
    \E dragStart \in DragPoints, mousePos \in DragPoints, alt \in BOOLEAN, ctrl \in BOOLEAN :
        calcDragSelection(dragStart, mousePos, alt, ctrl)

SpecSelect == InitSelect /\ [][NextSelect]_vars

(***************************************************************************)
(* The tempo map: the times of ticks                                       *)
(***************************************************************************)
\* the tempos of the model, in beats per minute
Tempos == {60, 120, 240}

\* the valid tempo maps: an entry at tick 0, ticks ascending, positive tempos
TempoMaps ==
    UNION {{m \in [1..n -> [tick : 0..MaxTempoTick, bpm : Tempos]] :
                /\ m[1].tick = 0
                /\ \A i \in 1..(n - 1) : m[i].tick < m[i + 1].tick} :
           n \in 1..MaxTempos}

\* updateNoteSE: the times of the notes at ticks t1 and t2
noteTimes(t1, t2) ==
    /\ lastOp' = [op |-> "accumulateDuration", t1 |-> t1, t2 |-> t2,
                  d1 |-> accumulateDuration(t1, score.tempoChanges),
                  d2 |-> accumulateDuration(t2, score.tempoChanges)]
    /\ UNCHANGED <<editVars, playVars, audioVars, division, lastPush>>

InitTempo ==
    /\ \E m \in TempoMaps : score = [EmptyScore EXCEPT !.tempoChanges = m]
    /\ nextID = resetNextID
    /\ prevUpdateScore = EmptyScore
    /\ selection = {}
    /\ history = EmptyHistory
    /\ hasEdit = FALSE
    /\ uptoDate = TRUE
    /\ workingFilename = "file.mmws"
    /\ isHoldingNote = FALSE
    /\ InitPlayback
    /\ lastOp = [op |-> "init"]
    /\ lastPush = NoPush

NextTempo ==
    \E t1 \in 0..(MaxTempoTick + 1), t2 \in 0..(MaxTempoTick + 1) :
        t1 < t2 /\ noteTimes(t1, t2)

SpecTempo == InitTempo /\ [][NextTempo]_vars

(***************************************************************************)
(* Properties: the note sound effects                                      *)
(***************************************************************************)
\* the number of requests of the run for the effect se of a note at tick
Fired(tick, se) ==
    Cardinality({i \in DOMAIN soundLog : soundLog[i].tick = tick /\ soundLog[i].se = se})

\* the instant a note fires at: its time less the look-ahead
FireInstant(note) == accumulateDuration(note.tick, score.tempoChanges) - audioLookAhead

\* C1: in a playback run, the effect of a note whose fire instant lies at or
\* after the start of the run has been requested once the song position of a
\* frame has crossed that instant, and it is never requested a second time,
\* whichever of the session clock and the BGM position the frames report.
C1_EffectFiresExactlyOnce ==
    playing =>
        \A id \in DOMAIN score.notes :
            LET note == score.notes[id]
                fired == Fired(note.tick, getNoteSE(note))
            IN  FireInstant(note) >= playStartTime =>
                    /\ fired <= 1
                    /\ (/\ lastOp.op = "update"
                        /\ songPosLastFrame <= FireInstant(note)
                        /\ FireInstant(note) < songPos) => fired >= 1

\* C15: among the playSound requests of a playback run, the connect effect
\* of holds included, no two are for the same tick and the same effect.
C15_OneRequestPerKey ==
    \A i, j \in DOMAIN soundLog :
        (soundLog[i].tick = soundLog[j].tick /\ soundLog[i].se = soundLog[j].se) => i = j

\* C16: the table of (tick, effect) keys is empty when playback starts, and a
\* frame of a playback run keeps every key the frames before it recorded.
C16_TableKeptDuringRun ==
    [][/\ (~playing /\ playing') => tickSEMap' = {}
       /\ (playing /\ playing' /\ lastOp'.op = "update") =>
                tickSEMap \subseteq tickSEMap']_vars

\* the requests a frame added to those of the run
NewSounds == {soundLog'[i] : i \in (Len(soundLog) + 1)..Len(soundLog')}

\* C17: a frame takes the song position of the frame before it as its
\* previous position; while playing, a note's effect is requested by the
\* windowed branch (start offset: the note's time in the run less the
\* correction) exactly when previousPosition <= noteTime - lookahead <
\* currentPosition; when not playing a frame requests nothing.
C17_FrameWindowRule ==
    [][lastOp'.op = "update" =>
        /\ songPosLastFrame' = songPos
        /\ ~playing => soundLog' = soundLog
        /\ playing =>
              \A id \in DOMAIN score.notes :
                 LET note == score.notes[id]
                     se == getNoteSE(note)
                     windowed(n) == /\ songPosLastFrame' <= FireInstant(n)
                                    /\ FireInstant(n) < songPos'
                     request == Sound(se, note.tick,
                                      FireInstant(note) + audioLookAhead - playStartTime
                                        - audioOffsetCorrection, -1)
                 IN  /\ windowed(note) => request \in NewSounds
                     /\ (time # playStartTime /\ <<note.tick, se>> \in tickSEMap') =>
                            \E id2 \in DOMAIN score.notes :
                                /\ score.notes[id2].tick = note.tick
                                /\ getNoteSE(score.notes[id2]) = se
                                /\ windowed(score.notes[id2])]_vars

\* C17 witness: a frame of a playback run, later than its first, requested
\* the effect of a note whose fire instant lies in the frame's window.
C17_Witness ==
    /\ lastOp.op = "update"
    /\ playing
    /\ \E id \in DOMAIN score.notes :
          LET note == score.notes[id]
          IN  /\ songPosLastFrame <= FireInstant(note)
              /\ FireInstant(note) < songPos
              /\ songPosLastFrame > playStartTime
              /\ <<note.tick, getNoteSE(note)>> \in tickSEMap
              /\ Fired(note.tick, getNoteSE(note)) = 1

\* the BGM position is the one a frame takes: the track is initialized, the
\* editor is playing, the track is not at its end and the position has
\* reached the audio offset of the chart
TransportReports ==
    /\ audio.musicInitialized
    /\ playing
    /\ ~audio.atEnd
    /\ getAudioPosition(audio) >= musicOffset

\* C18 as stated: the current position of a frame is the BGM position p when
\* the transport reports, and the session clock otherwise.
C18_PositionAsStated ==
    [][lastOp'.op = "update" =>
        songPos' = IF TransportReports THEN getAudioPosition(audio) ELSE time]_vars

\* C18 amended: the current position of a frame is the BGM position p plus
\* the audio offset of the chart when the transport reports (p itself having
\* reached the offset), and the session clock otherwise.
C18_PositionSelection ==
    [][lastOp'.op = "update" =>
        songPos' = IF TransportReports THEN getAudioPosition(audio) + musicOffset
                   ELSE time]_vars

\* C18 witness: a frame took the BGM position, with an audio offset, while
\* the BGM ran ahead of the session clock.
C18_Witness ==
    /\ lastOp.op = "update"
    /\ TransportReports
    /\ musicOffset > 0
    /\ songPos = getAudioPosition(audio) + musicOffset
    /\ songPos > time

\* the time of a note
NoteTime(note) == accumulateDuration(note.tick, score.tempoChanges)

\* a note is inside the look-ahead when playback starts at the instant t
InLookAheadAt(note, t) == NoteTime(note) >= t /\ FireInstant(note) < t

\* C19 as stated: the first frame of a run requests, with start offset 0, the
\* effect of every note that is inside the look-ahead at the start position.
C19_StartBranchAsStated ==
    [][(lastOp'.op = "update" /\ playing /\ time = playStartTime) =>
        \A id \in DOMAIN score.notes :
            InLookAheadAt(score.notes[id], time) =>
                Sound(getNoteSE(score.notes[id]), score.notes[id].tick, 0, -1)
                    \in NewSounds]_vars

\* C19 amended: the first frame of a run requests the effect of every note
\* that is inside the look-ahead at the start position: with the start offset
\* noteTime - startPosition, or, for a note whose look-ahead instant lies in
\* the window of that frame, with that offset less the correction.
C19_StartBranch ==
    [][(lastOp'.op = "update" /\ playing /\ time = playStartTime) =>
        \A id \in DOMAIN score.notes :
            LET note == score.notes[id]
                offset == NoteTime(note) - playStartTime
            IN  InLookAheadAt(note, time) =>
                    IF songPosLastFrame' <= FireInstant(note) /\ FireInstant(note) < songPos'
                    THEN Sound(getNoteSE(note), note.tick, offset - audioOffsetCorrection, -1)
                            \in NewSounds
                    ELSE Sound(getNoteSE(note), note.tick, offset, -1) \in NewSounds]_vars

\* C19 witness: the first frame of a run requested the effect of a note that
\* lies after the start position and inside the look-ahead, at its offset.
C19_Witness ==
    /\ lastOp.op = "update"
    /\ playing
    /\ \E id \in DOMAIN score.notes :
          LET note == score.notes[id]
          IN  /\ InLookAheadAt(note, playStartTime)
              /\ NoteTime(note) > playStartTime
              /\ \E i \in DOMAIN soundLog :
                    soundLog[i] = Sound(getNoteSE(note), note.tick,
                                        NoteTime(note) - playStartTime, -1)

\* playback started strictly inside the span of the hold h
StartedMidHold(h) ==
    /\ NoteTime(score.notes[h]) < playStartTime
    /\ playStartTime < NoteTime(score.notes[score.holdNotes[h].end])

\* the request the claim names for a hold resumed in its span: start offset
\* 0 and the remaining duration as end offset
ResumeRequest(h) ==
    Sound(IF score.notes[h].critical THEN SE_CRITICAL_CONNECT ELSE SE_CONNECT,
          score.notes[h].tick, 0,
          NoteTime(score.notes[score.holdNotes[h].end]) - playStartTime)

\* the connect requests of the run made for the hold h, by either branch
HoldRequests(h) ==
    LET st == NoteTime(score.notes[h]) - playStartTime
        en == NoteTime(score.notes[score.holdNotes[h].end]) - playStartTime
    IN  {i \in DOMAIN soundLog :
            /\ soundLog[i].tick = score.notes[h].tick
            /\ soundLog[i].se \in {SE_CONNECT, SE_CRITICAL_CONNECT}
            /\ <<soundLog[i].start, soundLog[i].end>> \in
                   {<<0, en>>, <<st - audioOffsetCorrection, en - audioOffsetCorrection>>}}

\* the request of the windowed branch for the hold h
WindowedRequest(h) ==
    Sound(IF score.notes[h].critical THEN SE_CRITICAL_CONNECT ELSE SE_CONNECT,
          score.notes[h].tick,
          NoteTime(score.notes[h]) - playStartTime - audioOffsetCorrection,
          NoteTime(score.notes[score.holdNotes[h].end]) - playStartTime
              - audioOffsetCorrection)

C24_StoppingSilences ==
    [][/\ (playing /\ ~playing') => (~audio'.sustain /\ ~audio'.started)
       /\ lastOp'.op \in {"loadScore", "resetEditor"} => ~playing']_vars

\* C24 witness: a loadScore ran while the BGM and a connect effect played
C24_Witness ==
    /\ lastOp.op = "loadScore"
    /\ lastOp.wasPlaying /\ lastOp.wasSounding
    /\ ~playing

(***************************************************************************)
(* Properties: hold-release normalization                                  *)
(***************************************************************************)
\* start.tick <= steps[0].tick <= ... <= end.tick
HoldOrdered(s, h) ==
    LET hold == s.holdNotes[h]
        ids == <<hold.start>> \o hold.steps \o <<hold.end>>
    IN  \A i \in 1..(Len(ids) - 1) : s.notes[ids[i]].tick <= s.notes[ids[i + 1]].tick

\* C2: after a release that normalized the selected holds, every hold of the
\* chart has its start, steps and end in ascending tick order.
C2_HoldsOrderedAfterRelease ==
    (lastOp.op = "release" /\ lastOp.holds # {}) =>
        \A h \in DOMAIN score.holdNotes : HoldOrdered(score, h)

\* C3: normalizing a hold that a release has just normalized changes nothing:
\* the ticks, the lanes and the order of the steps stay as they are.
C3_NormalizeIdempotent ==
    (lastOp.op = "release" /\ lastOp.holds # {}) =>
        \A h \in lastOp.holds : NormalizeHold(score, h) = score

\* C21: a release that normalizes the selected holds of a chart whose notes
\* all lie inside the lanes (MIN_LANE <= lane, lane + width - 1 <= MAX_LANE)
\* leaves every note inside the lanes.
C21_ReleaseKeepsLaneBounds ==
    [][(/\ lastOp'.op = "release"
        /\ \A id \in DOMAIN score.notes : NoteInLanes(score.notes[id])) =>
            \A id \in DOMAIN score'.notes : NoteInLanes(score'.notes[id])]_vars

\* C22: every entry a release pushes holds, as its current chart, a chart in
\* which every selected hold is in ascending tick order; the chart an undo or
\* a redo restores has every hold in that order; and an undo right after a
\* release that pushed restores the chart of the start of the drag.
C22_ReleaseEntriesNormalized ==
    [][/\ lastOp'.op = "release" =>
            \A i \in (Len(history.undo) + 1)..Len(history'.undo) :
                \A h \in lastOp'.holds : HoldOrdered(history'.undo[i].curr, h)
       /\ (lastOp'.op \in {"undo", "redo"} /\ lastOp'.done /\ ~isHoldingNote) =>
            \A h \in DOMAIN score'.holdNotes : HoldOrdered(score', h)
       /\ (lastOp'.op = "undo" /\ lastOp.op = "release" /\ lastOp.holds # {}) =>
            score' = prevUpdateScore]_vars

(***************************************************************************)
(* Properties: history                                                     *)
(***************************************************************************)
\* C4: an undo that follows pushHistory(desc, A, B), whatever was dragged in
\* between, leaves the live score equal to A, and a redo right after that
\* undo leaves it equal to B.
C4_UndoRedoRoundTrip ==
    /\ (lastOp.op = "undo" /\ lastOp.done /\ lastPush.phase = "undone")
            => score = lastPush.prev
    /\ (lastOp.op = "redo" /\ lastOp.done /\ lastPush.phase = "redone")
            => score = lastPush.curr

\* C4 witness: a push, a drag that changed the live score, the undo and the
\* redo have happened, and the two snapshots differ.
C4_Witness ==
    /\ lastOp.op = "redo"
    /\ lastOp.done
    /\ lastPush.phase = "redone"
    /\ lastPush.mutated
    /\ lastPush.prev # lastPush.curr
    /\ score = lastPush.curr

\* C5: once an entry is pushed there is nothing to redo, also when the push
\* followed an undo, and a redo then leaves the live score as pushed.
C5_LinearHistory ==
    lastPush.phase = "pushed" =>
        /\ ~hasRedo(history)
        /\ lastOp.op = "redo" => (~lastOp.done /\ score = lastPush.curr)

\* C5 witness: a push discarded redo entries and a redo was then attempted.
C5_Witness ==
    /\ lastPush.phase = "pushed"
    /\ lastPush.discarded
    /\ lastOp.op = "redo"

\* C11: an undo with no undo entry and a redo with no redo entry leave the
\* live score, the selection, the modified flag and the history as they were.
C11_EmptyUndoRedoNoOp ==
    [][(lastOp'.op \in {"undo", "redo"} /\ ~lastOp'.done) =>
            UNCHANGED <<score, selection, uptoDate, history>>]_vars

\* C11 witness: an undo found nothing to undo while notes were selected and
\* the score was marked modified.
C11_Witness ==
    /\ lastOp.op = "undo"
    /\ ~lastOp.done
    /\ ~hasUndo(history)
    /\ selection # {}
    /\ ~uptoDate

\* C12: a release of the note control while an edit is pending pushes the
\* entry (score at the start of the drag, score after the edit) and clears
\* hasEdit, whatever is selected.
C12_DragEditCheckpointed ==
    [][(lastOp'.op = "release" /\ hasEdit) =>
            /\ ~hasEdit'
            /\ history'.undo = Append(history.undo,
                                      [prev |-> prevUpdateScore, curr |-> score'])]_vars

(***************************************************************************)
(* Properties: the tempo map                                               *)
(***************************************************************************)
\* C14: over a valid tempo map, the time of a tick is not greater than the
\* time of any later tick.
C14_TickTimeMonotonic ==
    lastOp.op = "accumulateDuration" =>
        (lastOp.t1 < lastOp.t2 => lastOp.d1 <= lastOp.d2)

\* C14 witness: the times of two ticks on either side of a tempo change were
\* computed, the later tick having the later time.
C14_Witness ==
    /\ lastOp.op = "accumulateDuration"
    /\ Len(score.tempoChanges) > 1
    /\ lastOp.t1 < score.tempoChanges[2].tick
    /\ score.tempoChanges[2].tick < lastOp.t2
    /\ score.tempoChanges[1].bpm # score.tempoChanges[2].bpm
    /\ lastOp.d1 < lastOp.d2

(***************************************************************************)
(* Properties: the selection rectangle                                     *)
(***************************************************************************)
\* C13: after calcDragSelection the selection is the old selection less the
\* matches when Alt is held, the old selection with the matches when only
\* Ctrl is held, and the matches alone when neither is held.
C13_RectSelectionPolicy ==
    lastOp.op = "calcDragSelection" =>
        selection = IF lastOp.alt THEN lastOp.old \ lastOp.matches
                    ELSE IF lastOp.ctrl THEN lastOp.old \cup lastOp.matches
                    ELSE lastOp.matches

\* C13 witness: with only Ctrl held, a rectangle added a match to a selection
\* that held another note.
C13_Witness ==
    /\ lastOp.op = "calcDragSelection"
    /\ lastOp.ctrl /\ ~lastOp.alt
    /\ lastOp.old \ lastOp.matches # {}
    /\ lastOp.matches \ lastOp.old # {}
    /\ selection = lastOp.old \cup lastOp.matches

(***************************************************************************)
(* Properties: load and the ID allocator                                   *)
(***************************************************************************)
\* C6: a loadScore that raised an error leaves the live score and the next ID
\* as they were before the call.
C6_FailedLoadIsTransactional ==
    [][(lastOp'.op = "loadScore" /\ lastOp'.threw) =>
            (score' = score /\ nextID' = nextID)]_vars

\* C7: the next ID of the allocator is not the ID of a note of the live score.
C7_NextIDIsFresh == nextID \notin DOMAIN score.notes

\* C23: every selected ID is the ID of a note of the live chart, and a
\* loadScore, resetEditor, undo or redo that replaced the chart has left the
\* selection empty.
C23_SelectionValid ==
    /\ [](selection \subseteq DOMAIN score.notes)
    /\ [][(/\ lastOp'.op \in {"loadScore", "resetEditor", "undo", "redo"}
            /\ score' # score) => selection' = {}]_vars

\* C23 witness: a loadScore, resetEditor, undo or redo has replaced a chart
\* in which notes were selected
C23_Witness ==
    /\ lastOp.op \in {"loadScore", "resetEditor", "undo", "redo"}
    /\ lastOp.hadSelection
    /\ lastOp.op \in {"undo", "redo"} => lastOp.done
    /\ lastOp.op = "loadScore" => lastOp.fail # "import"
    /\ selection = {}

\* the loadScore that ran last assigned the chart read from the file
LoadReplacedChart(op) ==
    op.ext \in {SUS_EXTENSION, MMWS_EXTENSION} /\ op.fail # "import"

\* C25: after a resetEditor, and after a loadScore that replaced the chart
\* and did not fail, the history is empty, the selection is empty and no
\* edit is pending; a loadScore that did not replace the chart leaves the
\* history as it was.
C25_HistoryClearedWithChart ==
    [][/\ (\/ lastOp'.op = "resetEditor"
           \/ lastOp'.op = "loadScore" /\ LoadReplacedChart(lastOp') /\ ~lastOp'.threw) =>
                (history' = EmptyHistory /\ selection' = {} /\ ~hasEdit')
       /\ (lastOp'.op = "loadScore" /\ ~LoadReplacedChart(lastOp')) =>
                history' = history]_vars

\* C26: while no track is loaded (musicInitialized false before and after
\* the step), no step of togglePlaying, stop or a frame seeks, stops or
\* starts the BGM sound: its cursor, its end flag and its started flag stay
\* as they are.
C26_NoTransportWithoutTrack ==
    [][(~audio.musicInitialized /\ ~audio'.musicInitialized) =>
            /\ audio'.cursor = audio.cursor
            /\ audio'.atEnd = audio.atEnd
            /\ audio'.started = audio.started]_vars

(***************************************************************************)
(* Properties: seeking the BGM                                             *)
(***************************************************************************)
\* C8: after seekBGM on a loaded track, with frame the target time less the
\* audio offset, times the sample rate: the at-end flag is true when frame is
\* above the track length, false when the flag was true and frame is below
\* the track length, and as it was before the seek otherwise.
C8_SeekEndFlag ==
    (lastOp.op = "seekBGM" /\ lastOp.loaded) =>
        LET frame == (lastOp.target - lastOp.offset) * SampleRate
        IN  IF frame > BgmLength THEN audio.atEnd
            ELSE IF lastOp.wasAtEnd /\ frame < BgmLength THEN ~audio.atEnd
            ELSE audio.atEnd = lastOp.wasAtEnd

\* C27: a seekBGM on a loaded track to a time before the audio offset, made
\* while the at-end flag is false, leaves the flag false: the frame of the
\* seek is not taken for a frame above the track length.
C27_SeekBeforeOffsetKeepsFlag ==
    (/\ lastOp.op = "seekBGM" /\ lastOp.loaded
     /\ lastOp.target < lastOp.offset /\ ~lastOp.wasAtEnd) => ~audio.atEnd

(***************************************************************************)
(* Properties: the cursor grid                                             *)
(***************************************************************************)
\* C9: snapTick(tick, div) is never negative, and for tick >= 0 it is the
\* multiple of the grid unit nearest to tick, a halfway tick going up.
C9_SnapNearestMultiple ==
    lastOp.op = "snapTick" =>
        LET unit == GridUnit(lastOp.div)
            r == lastOp.result
        IN  /\ r >= 0
            /\ lastOp.tick >= 0 =>
                    /\ r % unit = 0
                    /\ 2 * (lastOp.tick - r) < unit
                    /\ 2 * (r - lastOp.tick) <= unit

\* C28: the division stays in 4..1920 (a setDivision with a value outside
\* that range changes nothing), so the grid unit is at least 1; currentTick
\* is never negative; nextTick puts the cursor on the least multiple of the
\* grid unit above it (the next grid line after the floored cursor);
\* previousTick never moves the cursor up.
C28_CursorOnGrid ==
    /\ [](division >= 4 /\ division <= 1920 /\ GridUnit(division) >= 1)
    /\ [](currentTick >= 0)
    /\ [][/\ (lastOp'.op = "setDivision" /\ (lastOp'.div < 4 \/ lastOp'.div > 1920)) =>
                division' = division
          /\ lastOp'.op = "nextTick" =>
                /\ currentTick' % GridUnit(division) = 0
                /\ currentTick' > currentTick
                /\ currentTick' - currentTick <= GridUnit(division)
          /\ lastOp'.op = "previousTick" => currentTick' <= currentTick]_vars

\* C28 witness: nextTick has stepped a cursor that stood off the grid lines
\* of the division
C28_Witness ==
    /\ lastOp.op = "nextTick"
    /\ lastOp.from % GridUnit(division) # 0
    /\ currentTick % GridUnit(division) = 0

(***************************************************************************)
(* Properties: the modified flag                                           *)
(***************************************************************************)
\* C10 as stated: modified after every push; up to date right after every
\* load, save, undo and redo.
C10_UptoDatePolicyAsStated ==
    /\ lastOp.op = "insertNote" => ~uptoDate
    /\ lastOp.op \in {"loadScore", "save", "saveAs", "saveFile", "undo", "redo"}
            => uptoDate

\* C10 amended: the score is modified after every push, after an undo or redo
\* that restored a snapshot and after a SUS import; it is up to date after an
\* MMWS file is deserialized and after save() or saveAs() wrote the working
\* file; every other load, save, undo and redo leaves the flag as it was.
C10_UptoDatePolicy ==
    [][/\ lastOp'.op = "insertNote" => ~uptoDate'
       /\ lastOp'.op \in {"undo", "redo"} =>
            IF lastOp'.done THEN ~uptoDate' ELSE uptoDate' = uptoDate
       /\ lastOp'.op = "loadScore" =>
            IF lastOp'.fail = "import" \/ lastOp'.ext \notin {SUS_EXTENSION, MMWS_EXTENSION}
            THEN uptoDate' = uptoDate
            ELSE uptoDate' = (lastOp'.ext = MMWS_EXTENSION)
       /\ lastOp'.op \in {"save", "saveAs"} =>
            IF lastOp'.saved THEN uptoDate' ELSE uptoDate' = uptoDate
       /\ lastOp'.op = "saveFile" => uptoDate' = uptoDate]_vars

\* C10 witness: an undo restored a snapshot of a score that was up to date
\* with its file, and the score is marked modified.
C10_Witness ==
    /\ lastOp.op = "undo"
    /\ lastOp.done
    /\ ~uptoDate
    /\ workingFilename # ""

====
